---- MODULE Spec2Model ----
(***************************************************************************)
(* Model of the custom AWS Lambda runtime in src/runtime-layer/runtime.ts  *)
(* and of the HTTP helpers in src/runtime-layer/helpers.ts.                *)
(*                                                                         *)
(* One action is one run of startRuntime() between two suspension points   *)
(* (await), or one completion of a request the runtime did not await.      *)
(* Texts that the code takes apart (the handler specifier, a stack trace)  *)
(* are sequences of one-character strings; JSON documents received from    *)
(* the control plane are sequences of lexemes; texts that the code only    *)
(* builds or forwards are TLA+ strings.                                    *)
(***************************************************************************)
EXTENDS Integers, Sequences, FiniteSets, TLC

VARIABLES
    pc,             \* where startRuntime() is suspended
    handlerSpec,    \* process.env._HANDLER
    rejectionMode,  \* what this Node build does with an unhandled rejection:
                    \* "warn" or "throw", "unobserved" until the first one
    calls,          \* every HTTP request the runtime has sent, in order
    data,           \* the response load() last resolved with
    invocations,    \* every call of the handler, in order
    context,        \* the context built by the last getNextInvocation()
    event,          \* the event decoded by the last getNextInvocation()
    logged,         \* the messages written by console.error (runtime.ts:148)
    exitStatus,     \* <<>> while the process runs, <<code>> after process.exit
    issued,         \* how many request ids the control plane has handed out
    traceSlot,      \* process.env._X_AMZN_TRACE_ID, <<>> while it is not set
    lastTrace,      \* the last trace id the control plane has sent, <<>> if none
    reply,          \* the status code of the reply to a post that has just
                    \* resolved (the runtime does not keep it), else <<>>
    arg,            \* the input of a function examined on its own
    ret             \* the results of a function examined on its own

vars == <<pc, handlerSpec, rejectionMode, calls, data, invocations, context,
          event, logged, exitStatus, issued, traceSlot, lastTrace, reply, arg, ret>>

----------------------------------------------------------------------------
(* Bounds *)

\* the control plane answers at most this many polls
MaxCycles == 3

\* the longest handler specifier examined
MaxSpecLen == 5

\* the longest stack text examined
MaxStackLen == 4

\* the clock advances in steps of TickMs milliseconds, MaxTicks times, and is
\* read at most MaxReads times
TickMs == 5
MaxTicks == 3
MaxReads == 3

\* the status codes examined
FirstStatus == 100
LastStatus == 599

----------------------------------------------------------------------------
(* Texts *)

\* the texts of at most n characters over an alphabet
TextsUpTo(alphabet, n) == UNION {[1..k -> alphabet] : k \in 0..n}

\* the text made of the characters of cs
RECURSIVE Str(_)
Str(cs) == IF cs = <<>> THEN "" ELSE Head(cs) \o Str(Tail(cs))

\* String.prototype.split(sep) for a one-character separator
RECURSIVE Split(_, _)
Split(cs, sep) ==
    IF \A i \in 1..Len(cs) : cs[i] # sep
    THEN <<Str(cs)>>
    ELSE LET i == CHOOSE j \in 1..Len(cs) :
                      cs[j] = sep /\ \A k \in 1..(j - 1) : cs[k] # sep
         IN  <<Str(SubSeq(cs, 1, i - 1))>> \o Split(SubSeq(cs, i + 1, Len(cs)), sep)

\* Array.prototype.join for texts
RECURSIVE JoinStr(_, _)
JoinStr(ss, sep) ==
    IF ss = <<>> THEN ""
    ELSE IF Len(ss) = 1 THEN ss[1]
    ELSE ss[1] \o sep \o JoinStr(Tail(ss), sep)

\* a JSON string literal (the texts of the model hold no character that
\* JSON.stringify would escape)
Quote(s) == "\"" \o s \o "\""

\* the elements of a sequence, each mapped by Quote
QuoteAll(ss) == [i \in 1..Len(ss) |-> Quote(ss[i])]

\* the value of a decimal digit
DigitValue ==
    [c \in {"0", "1", "2", "3", "4", "5", "6", "7", "8", "9"} |->
        CASE c = "0" -> 0 [] c = "1" -> 1 [] c = "2" -> 2 [] c = "3" -> 3
          [] c = "4" -> 4 [] c = "5" -> 5 [] c = "6" -> 6 [] c = "7" -> 7
          [] c = "8" -> 8 [] OTHER -> 9]

\* the unary + of line 68 on a text of decimal digits
RECURSIVE ToNumber(_)
ToNumber(cs) ==
    IF cs = <<>> THEN 0
    ELSE 10 * ToNumber(SubSeq(cs, 1, Len(cs) - 1)) + DigitValue[cs[Len(cs)]]

\* the decimal digits of a natural number, as the control plane writes a
\* deadline into its header
RECURSIVE ToDigits(_)
ToDigits(n) ==
    LET d == CHOOSE c \in DOMAIN DigitValue : DigitValue[c] = n % 10
    IN  IF n < 10 THEN <<d>> ELSE ToDigits(n \div 10) \o <<d>>

----------------------------------------------------------------------------
(* JSON *)

\* the scalar lexemes and the member names of the JSON documents modelled
Scalars == {"null", "true", "1", "\"a\""}
Keys == {"\"n\"", "\"a\"", "\"ok\""}

\* a decoded JSON value: a scalar, or an object of scalar members
ScalarValue(tok) == [type |-> "scalar", scalar |-> tok, members |-> <<>>]
ObjectValue(ms) == [type |-> "object", scalar |-> "", members |-> ms]

\* the members  key : scalar , key : scalar ...  of an object
RECURSIVE ParseMembers(_)
ParseMembers(toks) ==
    IF Len(toks) >= 3 /\ toks[1] \in Keys /\ toks[2] = ":" /\ toks[3] \in Scalars
    THEN IF Len(toks) = 3
         THEN [ok |-> TRUE, members |-> << <<toks[1], toks[3]>> >>]
         ELSE IF toks[4] = "," 
              THEN LET rest == ParseMembers(SubSeq(toks, 5, Len(toks)))
                   IN  [ok |-> rest.ok,
                        members |-> << <<toks[1], toks[3]>> >> \o rest.members]
              ELSE [ok |-> FALSE, members |-> <<>>]
    ELSE [ok |-> FALSE, members |-> <<>>]

\* JSON.parse: ok = FALSE stands for the SyntaxError it throws
JSONParse(toks) ==
    IF Len(toks) = 1 /\ toks[1] \in Scalars
    THEN [ok |-> TRUE, value |-> ScalarValue(toks[1])]
    ELSE IF Len(toks) >= 2 /\ toks[1] = "{" /\ toks[Len(toks)] = "}"
    THEN IF Len(toks) = 2
         THEN [ok |-> TRUE, value |-> ObjectValue(<<>>)]
         ELSE LET ms == ParseMembers(SubSeq(toks, 2, Len(toks) - 1))
              IN  [ok |-> ms.ok, value |-> ObjectValue(ms.members)]
    ELSE [ok |-> FALSE, value |-> ObjectValue(<<>>)]

----------------------------------------------------------------------------
(* Errors *)

\* an optional text: <<>> is undefined
Undefined == <<>>
Defined(s) == <<s>>

\* what user code or the runtime can throw: an Error object, a value that is
\* not an Error (a string), or null / undefined
ErrorObject(name, message, stack) ==
    [kind |-> "Error", name |-> name, message |-> message, stack |-> stack]
NonError == [kind |-> "string", name |-> "", message |-> "", stack |-> <<>>]
NullValue == [kind |-> "null", name |-> "", message |-> "", stack |-> <<>>]

\* reading a property of a thrown value: undefined on a value without it
ErrName(err) == IF err.kind = "Error" THEN Defined(err.name) ELSE Undefined
ErrMessage(err) == IF err.kind = "Error" THEN Defined(err.message) ELSE Undefined

\* err.stack || ''
ErrStack(err) == IF err.kind = "Error" THEN err.stack ELSE <<>>

\* createError: ok = FALSE stands for the TypeError of reading .name of
\* null or undefined
createError(err) ==
    IF err.kind = "null"
    THEN [ok |-> FALSE, errorType |-> Undefined, errorMessage |-> Undefined,
          stackTrace |-> <<>>]
    ELSE [ok |-> TRUE, errorType |-> ErrName(err), errorMessage |-> ErrMessage(err),
          stackTrace |-> Split(ErrStack(err), "\n")]

\* JSON.stringify of the record built by createError: members in the order of
\* the object literal, a member whose value is undefined left out
JSONStringify(e) ==
    LET type == IF e.errorType = Undefined THEN <<>>
                ELSE <<"\"errorType\":" \o Quote(e.errorType[1])>>
        msg == IF e.errorMessage = Undefined THEN <<>>
               ELSE <<"\"errorMessage\":" \o Quote(e.errorMessage[1])>>
        stack == <<"\"stackTrace\":[" \o JoinStr(QuoteAll(e.stackTrace), ",") \o "]">>
    IN  "{" \o JoinStr(type \o msg \o stack, ",") \o "}"

\* what process.env holds after an assignment: the value as a text, the
\* text "undefined" for undefined
EnvString(v) == IF v = Undefined THEN "undefined" ELSE v[1]

\* the stack text V8 gives an Error made by the runtime or by Node itself:
\* a descriptive line and one frame
RuntimeStack == <<"E", "\n", "a", "t">>

----------------------------------------------------------------------------
(* Values a handler returns and helpers.ts writes *)

StringVal(s) == [type |-> "string", scalar |-> s, members |-> <<>>]
UndefinedVal == [type |-> "undefined", scalar |-> "", members |-> <<>>]

\* the test  if (payload)  of helpers.ts:27
Truthy(v) ==
    CASE v.type = "string" -> v.scalar # ""
      [] v.type = "undefined" -> FALSE
      [] v.type = "scalar" -> v.scalar # "null"
      [] OTHER -> TRUE

\* req.write takes a string or a Buffer and throws a TypeError on anything else
Writable(v) == v.type = "string"

----------------------------------------------------------------------------
(* helpers.ts *)

NoHeaders == [h \in {} |-> <<>>]
NoResponse == [statusCode |-> 0, body |-> <<>>, headers |-> NoHeaders]

\* request: the request is on the wire once req.end() has run (sent); a
\* payload req.write cannot take throws inside the promise executor, which
\* rejects the promise before req.end()
request(url, method, headers, payload) ==
    IF Truthy(payload) /\ ~Writable(payload)
    THEN [sent |-> FALSE, url |-> url, method |-> method, headers |-> headers,
          body |-> ""]
    ELSE [sent |-> TRUE, url |-> url, method |-> method, headers |-> headers,
          body |-> IF Truthy(payload) THEN payload.scalar ELSE ""]

load(url) == request(url, "GET", {}, UndefinedVal)

send(url, payload) ==
    request(url, "POST", {<<"Content-Type", "application/json">>}, payload)

\* response.statusCode >= 200 || response.statusCode <= 300
isResponseOk(response) == response.statusCode >= 200 \/ response.statusCode <= 300

----------------------------------------------------------------------------
(* runtime.ts: configuration and URLs *)

AWS_LAMBDA_RUNTIME_API == "127.0.0.1:9001"
API_VERSION == "/2018-06-01"

getNextInvocationUrl ==
    AWS_LAMBDA_RUNTIME_API \o "/" \o API_VERSION \o "/runtime/invocation/next"
getInvocationResponseUrl(requestId) ==
    AWS_LAMBDA_RUNTIME_API \o "/" \o API_VERSION \o "/runtime/invocation/"
        \o requestId \o "/response"
getInvocationErrorUrl(requestId) ==
    AWS_LAMBDA_RUNTIME_API \o "/" \o API_VERSION \o "/runtime/invocation/"
        \o requestId \o "/error"
getInitErrorUrl ==
    AWS_LAMBDA_RUNTIME_API \o "/" \o API_VERSION \o "/runtime/invocation/init/error"

----------------------------------------------------------------------------
(* runtime.ts: handler resolution *)

\* the modules under LAMBDA_TASK_ROOT and what each exports
ModuleExports(path) == IF path = "i" THEN {"h"} ELSE {}
ModuleExists(path) == path \in {"i", "e"}

\* the values of _HANDLER the process may be started with
HandlerSpecs ==
    { <<"i", ".", "h">>,            \* module i, export h
      <<"i">>,                      \* no separator
      <<".", "h">>,                 \* empty path
      <<"i", ".">>,                 \* empty name
      <<"i", ".", "x">>,            \* module i has no export x
      <<"e", ".", "h">>,            \* module e has no export h
      <<"m", ".", "h">> }           \* no module m

\* getLambdaHandler: ok = FALSE stands for the Error it throws (or the
\* rejection of import()), imported tells whether import() was called.  A
\* module namespace is never falsy, so the test of runtime.ts:55 never fires.
getLambdaHandler(handler) ==
    LET parts == Split(handler, ".")
        handlerPath == parts[1]
        handlerName == IF Len(parts) >= 2 THEN parts[2] ELSE ""
    IN  IF handlerPath = "" \/ handlerName = ""
        THEN [ok |-> FALSE, imported |-> FALSE,
              error |-> ErrorObject("Error", "Invalid handler: " \o Str(handler),
                                    RuntimeStack)]
        ELSE IF ~ModuleExists(handlerPath)
        THEN [ok |-> FALSE, imported |-> TRUE,
              error |-> ErrorObject("Error", "Cannot find module", RuntimeStack)]
        ELSE IF handlerName \notin ModuleExports(handlerPath)
        THEN [ok |-> FALSE, imported |-> TRUE,
              error |-> ErrorObject("Error", "Handler function not found!",
                                    RuntimeStack)]
        ELSE [ok |-> TRUE, imported |-> TRUE, error |-> NullValue]

----------------------------------------------------------------------------
(* The control plane and the user's handler: the inputs of the runtime *)

\* the request ids the control plane hands out, one per answered poll, each
\* once and in this order
IdPool == <<"r1", "r2", "r3", "r4", "r5", "r6">>

\* the trace id the control plane sends with each of them, when it sends one
TracePool == <<"t1", "t2", "t3", "t4", "t5", "t6">>

\* the status codes of the control plane's replies
StatusCodes == {200, 500}

\* a JSON document, and two texts that are not JSON: an empty text and a
\* truncated document
Doc == <<"{", "\"n\"", ":", "1", "}">>
Truncated == <<"{", "\"n\"", ":">>

\* the poll responses of the control plane, as <<body, client-context
\* header, cognito-identity header, trace-id header sent, status code>>;
\* <<>> is an absent header
PollShapes ==
    { <<Doc, <<>>, <<>>, FALSE, 200>>,
      <<(<<"null">>), <<Doc>>, <<Doc>>, TRUE, 200>>,
      <<Doc, <<>>, <<>>, TRUE, 500>>,
      <<(<<>>), <<>>, <<>>, FALSE, 200>>,
      <<Truncated, <<>>, <<>>, FALSE, 500>>,
      <<Doc, <<Truncated>>, <<>>, TRUE, 200>>,
      <<Doc, <<>>, <<Truncated>>, FALSE, 200>> }

\* the response headers of a poll: Node gives the names in lower case
\* (IncomingMessage.headers)
PollHeaders(rid, cc, id, trace, deadline) ==
    [h \in {"lambda-runtime-aws-request-id", "lambda-runtime-deadline-ms"}
            \cup (IF cc = <<>> THEN {} ELSE {"lambda-runtime-client-context"})
            \cup (IF id = <<>> THEN {} ELSE {"lambda-runtime-cognito-identity"})
            \cup (IF trace = <<>> THEN {} ELSE {"lambda-runtime-trace-id"})
        |-> CASE h = "lambda-runtime-aws-request-id" -> rid
              [] h = "lambda-runtime-deadline-ms" -> deadline
              [] h = "lambda-runtime-client-context" -> cc[1]
              [] h = "lambda-runtime-cognito-identity" -> id[1]
              [] OTHER -> trace[1]]

\* what the handler may return: a text, the empty text, nothing, an object
Results ==
    { StringVal("done"), StringVal(""), UndefinedVal,
      ObjectValue(<< <<"\"ok\"", "true">> >>) }

\* what the handler may throw (or reject with): an Error, a value that is not
\* an Error, or null / undefined
Thrown == { ErrorObject("Error", "boom", <<"E", "\n", "a">>), NonError, NullValue }

----------------------------------------------------------------------------
(* runtime.ts: getNextInvocation *)

\* the test  if (data.headers[name])
HeaderTruthy(headers, name) ==
    name \in DOMAIN headers /\ headers[name] # <<>>

\* data.headers[name]: undefined when no header has exactly that name
HeaderValue(headers, name) ==
    IF name \in DOMAIN headers THEN Defined(headers[name]) ELSE Undefined

\* setTraceId with the assignment made only when the response carries a
\* trace id (read under the lower-case name)
setTraceId_IfPresent(slot, headers) ==
    IF "lambda-runtime-trace-id" \in DOMAIN headers
    THEN Defined(headers["lambda-runtime-trace-id"])
    ELSE slot

\* line 89: the value process.env._X_AMZN_TRACE_ID has after the assignment;
\* slot is the value it had before
setTraceId(slot, headers) ==
    Defined(EnvString(HeaderValue(headers, "Lambda-Runtime-Trace-Id")))

\* getRemainingTimeInMillis clamped at zero
getRemainingTimeInMillis_Clamped(ctx, now) ==
    IF ctx.deadline - now < 0 THEN 0 ELSE ctx.deadline - now

\* context.getRemainingTimeInMillis() when Date.now() is now
getRemainingTimeInMillis(ctx, now) == ctx.deadline - now

NoContext ==
    [awsRequestId |-> "", deadline |-> 0, clientContext |-> <<>>, identity |-> <<>>]

\* getNextInvocation after load() has resolved with d: ok = FALSE stands
\* for the SyntaxError of a JSON.parse
getNextInvocation(d) ==
    LET ev == JSONParse(d.body)
        hasCc == HeaderTruthy(d.headers, "lambda-runtime-client-context")
        cc == IF hasCc THEN JSONParse(d.headers["lambda-runtime-client-context"])
              ELSE [ok |-> TRUE, value |-> UndefinedVal]
        hasId == HeaderTruthy(d.headers, "lambda-runtime-cognito-identity")
        id == IF hasId THEN JSONParse(d.headers["lambda-runtime-cognito-identity"])
              ELSE [ok |-> TRUE, value |-> UndefinedVal]
    IN  [ok |-> ev.ok /\ cc.ok /\ id.ok,
         event |-> ev.value,
         context |->
            [awsRequestId |-> d.headers["lambda-runtime-aws-request-id"],
             deadline |-> ToNumber(d.headers["lambda-runtime-deadline-ms"]),
             clientContext |-> IF hasCc THEN <<cc.value>> ELSE <<>>,
             identity |-> IF hasId THEN <<id.value>> ELSE <<>>]]

----------------------------------------------------------------------------
(* State *)

\* a request the runtime has sent: op is the URL builder it was made with,
\* rid the request id in its path (for a poll: the request id it was
\* answered with)
Call(op, rid, r) ==
    [op |-> op, rid |-> rid, url |-> r.url, method |-> r.method, body |-> r.body,
     status |-> "started"]

\* the poll of the next cycle: load(getNextInvocationUrl())
IssuePoll(cs) == Append(cs, Call("next", "", load(getNextInvocationUrl)))

\* the request the runtime is suspended on is the last one it sent
Settle(cs, status) == [cs EXCEPT ![Len(cs)].status = status]

\* process.exit(code)
Exit(code) == pc' = "exited" /\ exitStatus' = <<code>>

\* the catch of runtime.ts:146-150
Fatal(message) == logged' = Append(logged, message) /\ Exit(1)

Polls == {i \in 1..Len(calls) : calls[i].op = "next"}

Init ==
    /\ pc = "init"
    /\ handlerSpec \in HandlerSpecs
    /\ rejectionMode = "unobserved"
    /\ calls = <<>>
    /\ data = NoResponse
    /\ invocations = <<>>
    /\ context = NoContext
    /\ event = UndefinedVal
    /\ logged = <<>>
    /\ exitStatus = <<>>
    /\ issued = 0
    /\ traceSlot = Undefined
    /\ lastTrace = <<>>
    /\ reply = <<>>
    /\ arg = <<>>
    /\ ret = <<>>

----------------------------------------------------------------------------
(* runtime.ts: startRuntime *)

\* handleInitError / handleInvocationError: the request they send
handleInitError(error) ==
    Call("initError", "", send(getInitErrorUrl, StringVal(JSONStringify(createError(error)))))

handleInvocationError(error, ctx) ==
    Call("error", ctx.awsRequestId,
         send(getInvocationErrorUrl(ctx.awsRequestId),
              StringVal(JSONStringify(createError(error)))))

\* lines 113-114 and 120-132: the handler is resolved and the first poll is sent
ResolveHandlerOk ==
    /\ pc = "init"
    /\ getLambdaHandler(handlerSpec).ok
    /\ calls' = IssuePoll(calls)
    /\ pc' = "awaitNext"
    /\ UNCHANGED <<data, handlerSpec, rejectionMode, invocations, context, event, logged,
                   exitStatus, issued>>
    /\ reply' = <<>>
    /\ UNCHANGED <<traceSlot, lastTrace, arg, ret>>

\* ResolveHandlerFails without process.exit(1) and return: the runtime goes on
\* into the loop
ResolveHandlerFails_FallsThrough ==
    /\ pc = "init"
    /\ ~getLambdaHandler(handlerSpec).ok
    /\ calls' = IssuePoll(Append(calls,
                    handleInitError(getLambdaHandler(handlerSpec).error)))
    /\ pc' = "awaitNext"
    /\ UNCHANGED <<data, handlerSpec, rejectionMode, invocations, context, event,
                   logged, exitStatus, issued>>
    /\ reply' = <<>>
    /\ UNCHANGED <<traceSlot, lastTrace, arg, ret>>

\* lines 115-118: resolution failed; the init-error request is started, its
\* promise is dropped, and process.exit(1) runs in the same turn, before the
\* event loop can put the request on the wire
ResolveHandlerFails ==
    /\ pc = "init"
    /\ ~getLambdaHandler(handlerSpec).ok
    /\ calls' = Append(calls, handleInitError(getLambdaHandler(handlerSpec).error))
    /\ Exit(1)
    /\ UNCHANGED <<data, handlerSpec, rejectionMode, invocations, context, event, logged, issued>>
    /\ reply' = <<>>
    /\ UNCHANGED <<traceSlot, lastTrace, arg, ret>>

\* LoadRejects with the failure caught inside the loop: it is logged and the
\* loop polls again
LoadRejects_Retries ==
    /\ pc = "awaitNext"
    /\ calls' = IssuePoll(Settle(calls, "failed"))
    /\ logged' = Append(logged, "connect ECONNREFUSED")
    /\ UNCHANGED <<pc, exitStatus, data, handlerSpec, rejectionMode, invocations,
                   context, event, issued>>
    /\ reply' = <<>>
    /\ UNCHANGED <<traceSlot, lastTrace, arg, ret>>

\* line 132: load() rejects (connection failure)
LoadRejects ==
    /\ pc = "awaitNext"
    /\ calls' = Settle(calls, "failed")
    /\ Fatal("connect ECONNREFUSED")
    /\ UNCHANGED <<data, handlerSpec, rejectionMode, invocations, context, event, issued>>
    /\ reply' = <<>>
    /\ UNCHANGED <<traceSlot, lastTrace, arg, ret>>

\* the response the control plane gives to the outstanding poll
PollResponse(shape) ==
    [statusCode |-> shape[5],
     body |-> shape[1],
     headers |-> PollHeaders(IdPool[issued + 1], shape[2], shape[3],
                             IF shape[4] THEN <<TracePool[issued + 1]>> ELSE <<>>,
                             ToDigits(issued + 1))]

\* the control plane answers the outstanding poll
PollAnswer(d) ==
    /\ pc = "awaitNext"
    /\ issued < MaxCycles /\ issued < Len(IdPool)
    /\ calls' = [Settle(calls, "completed") EXCEPT
                    ![Len(calls)].rid = d.headers["lambda-runtime-aws-request-id"]]
    /\ data' = d
    /\ issued' = issued + 1
    /\ lastTrace' = IF "lambda-runtime-trace-id" \in DOMAIN d.headers
                    THEN <<d.headers["lambda-runtime-trace-id"]>> ELSE lastTrace

\* GetNextInvocationOk with the context kept from the first cycle: later
\* invocations get the event of their poll and the context of the first one
GetNextInvocationOk_StaleContext ==
    \E shape \in PollShapes :
        /\ issued < Len(IdPool)
        /\ LET d == PollResponse(shape)
               got == getNextInvocation(d)
               ctx == IF invocations = <<>> THEN got.context ELSE context
           IN  /\ got.ok
               /\ PollAnswer(d)
               /\ event' = got.event
               /\ context' = ctx
               /\ invocations' = Append(invocations,
                      [rid |-> ctx.awsRequestId,
                       outcome |-> "running", result |-> UndefinedVal,
                       thrown |-> NullValue])
               /\ traceSlot' = setTraceId(traceSlot, d.headers)
               /\ pc' = "invoking"
        /\ reply' = <<>>
        /\ UNCHANGED <<handlerSpec, rejectionMode, logged, exitStatus, arg, ret>>

\* lines 132-135: load() resolves, getNextInvocation returns, the handler is called
GetNextInvocationOk ==
    \E shape \in PollShapes :
        /\ issued < Len(IdPool)
        /\ LET d == PollResponse(shape)
               got == getNextInvocation(d)
           IN  /\ got.ok
               /\ PollAnswer(d)
               /\ event' = got.event
               /\ context' = got.context
               /\ invocations' = Append(invocations,
                      [rid |-> got.context.awsRequestId,
                       outcome |-> "running", result |-> UndefinedVal,
                       thrown |-> NullValue])
               /\ traceSlot' = setTraceId(traceSlot, d.headers)
               /\ pc' = "invoking"
        /\ reply' = <<>>
        /\ UNCHANGED <<handlerSpec, rejectionMode, logged, exitStatus, arg, ret>>

\* line 132: load() resolves and a JSON.parse of getNextInvocation throws
GetNextInvocationThrows ==
    \E shape \in PollShapes :
        /\ issued < Len(IdPool)
        /\ LET d == PollResponse(shape)
           IN  /\ ~getNextInvocation(d).ok
               /\ PollAnswer(d)
        /\ Fatal("Unexpected token in JSON")
        /\ reply' = <<>>
        /\ UNCHANGED <<handlerSpec, rejectionMode, invocations, context, event,
                       traceSlot, arg, ret>>

\* the record of the running invocation, closed
Close(outcome, result, thrown) ==
    [invocations EXCEPT ![Len(invocations)].outcome = outcome,
                        ![Len(invocations)].result = result,
                        ![Len(invocations)].thrown = thrown]

\* lines 135, 140-144: the handler returns (or resolves) and the result is
\* posted; a result req.write cannot take rejects send(), which the await
\* throws to the catch of line 146
HandlerReturns ==
    \E result \in Results :
        /\ pc = "invoking"
        /\ invocations' = Close("returned", result, NullValue)
        /\ LET r == send(getInvocationResponseUrl(context.awsRequestId), result)
           IN  IF r.sent
               THEN /\ calls' = Append(calls, Call("response", context.awsRequestId, r))
                    /\ pc' = "awaitResponse"
                    /\ UNCHANGED <<logged, exitStatus>>
               ELSE /\ Fatal("The first argument must be one of type string or Buffer")
                    /\ UNCHANGED calls
        /\ UNCHANGED <<data, handlerSpec, rejectionMode, context, event, issued>>
        /\ reply' = <<>>
        /\ UNCHANGED <<traceSlot, lastTrace, arg, ret>>

\* HandlerThrows without the continue of line 138: after the error post the
\* loop falls through to the response post, with an undefined result
HandlerThrows_NoContinue ==
    \E e \in Thrown :
        /\ pc = "invoking"
        /\ invocations' = Close("threw", UndefinedVal, e)
        /\ IF createError(e).ok
           THEN /\ calls' = Append(Append(calls, handleInvocationError(e, context)),
                                   Call("response", context.awsRequestId,
                                        send(getInvocationResponseUrl(context.awsRequestId),
                                             UndefinedVal)))
                /\ pc' = "awaitResponse"
                /\ UNCHANGED <<logged, exitStatus>>
           ELSE /\ Fatal("Cannot read property 'name' of null")
                /\ UNCHANGED calls
        /\ UNCHANGED <<data, handlerSpec, rejectionMode, context, event, issued>>
        /\ reply' = <<>>
        /\ UNCHANGED <<traceSlot, lastTrace, arg, ret>>

\* lines 136-139 and 132: the handler throws (or rejects); the error post is
\* started and not awaited, and the loop goes on to the next poll in the same
\* turn.  createError throws on null / undefined, inside the catch block, so
\* that TypeError reaches the catch of line 146.
HandlerThrows ==
    \E e \in Thrown :
        /\ pc = "invoking"
        /\ invocations' = Close("threw", UndefinedVal, e)
        /\ IF createError(e).ok
           THEN /\ calls' = IssuePoll(Append(calls, handleInvocationError(e, context)))
                /\ pc' = "awaitNext"
                /\ UNCHANGED <<logged, exitStatus>>
           ELSE /\ Fatal("Cannot read property 'name' of null")
                /\ UNCHANGED calls
        /\ UNCHANGED <<data, handlerSpec, rejectionMode, context, event, issued>>
        /\ reply' = <<>>
        /\ UNCHANGED <<traceSlot, lastTrace, arg, ret>>

\* SendResponseResolves with the status of the reply checked: a reply that is
\* not a success is a failure of the loop
SendResponseResolves_ChecksStatus ==
    /\ pc = "awaitResponse"
    /\ \E code \in StatusCodes :
           /\ reply' = <<code>>
           /\ IF code < 300
              THEN /\ calls' = IssuePoll(Settle(calls, "completed"))
                   /\ pc' = "awaitNext"
                   /\ UNCHANGED <<logged, exitStatus>>
              ELSE /\ calls' = Settle(calls, "completed")
                   /\ Fatal("Request failed")
    /\ UNCHANGED <<data, handlerSpec, rejectionMode, invocations, context, event, issued>>
    /\ UNCHANGED <<traceSlot, lastTrace, arg, ret>>

\* lines 140-144 and 132: the response post resolves and the next poll is sent
SendResponseResolves ==
    /\ pc = "awaitResponse"
    /\ calls' = IssuePoll(Settle(calls, "completed"))
    /\ pc' = "awaitNext"
    /\ UNCHANGED <<data, handlerSpec, rejectionMode, invocations, context, event, logged,
                   exitStatus, issued>>
    /\ \E code \in StatusCodes : reply' = <<code>>
    /\ UNCHANGED <<traceSlot, lastTrace, arg, ret>>

\* SendResponseRejects with the send inside the inner try: the failure is
\* reported as an invocation error and the loop goes on
SendResponseRejects_Continues ==
    /\ pc = "awaitResponse"
    /\ calls' = IssuePoll(Append(Settle(calls, "failed"),
                    handleInvocationError(
                        ErrorObject("Error", "connect ECONNREFUSED", RuntimeStack),
                        context)))
    /\ pc' = "awaitNext"
    /\ UNCHANGED <<data, handlerSpec, rejectionMode, invocations, context, event,
                   logged, exitStatus, issued>>
    /\ reply' = <<>>
    /\ UNCHANGED <<traceSlot, lastTrace, arg, ret>>

\* lines 140-150: the response post rejects (connection failure)
SendResponseRejects ==
    /\ pc = "awaitResponse"
    /\ calls' = Settle(calls, "failed")
    /\ Fatal("connect ECONNREFUSED")
    /\ UNCHANGED <<data, handlerSpec, rejectionMode, invocations, context, event, issued>>
    /\ reply' = <<>>
    /\ UNCHANGED <<traceSlot, lastTrace, arg, ret>>

\* line 137: an error post the loop did not wait for resolves
ErrorPostResolves ==
    \E i \in 1..Len(calls) :
        /\ pc # "exited"
        /\ calls[i].op = "error" /\ calls[i].status = "started"
        /\ calls' = [calls EXCEPT ![i].status = "completed"]
        /\ UNCHANGED <<data, pc, handlerSpec, rejectionMode, invocations, context, event,
                       logged, exitStatus, issued>>
        /\ \E code \in StatusCodes : reply' = <<code>>
        /\ UNCHANGED <<traceSlot, lastTrace, arg, ret>>

\* line 137: an error post the loop did not wait for rejects.  Nothing
\* handles the rejection: a Node build that warns goes on, a Node build that
\* throws on unhandled rejections ends the process with status 1, in neither
\* case through the catch of line 146.
ErrorPostRejects ==
    \E i \in 1..Len(calls) :
        /\ pc # "exited"
        /\ calls[i].op = "error" /\ calls[i].status = "started"
        /\ calls' = [calls EXCEPT ![i].status = "failed"]
        /\ rejectionMode' \in IF rejectionMode = "unobserved" THEN {"warn", "throw"}
                                ELSE {rejectionMode}
        /\ IF rejectionMode' = "throw" THEN Exit(1) ELSE UNCHANGED <<pc, exitStatus>>
        /\ UNCHANGED <<data, handlerSpec, invocations, context, event,
                       logged, issued>>
        /\ reply' = <<>>
        /\ UNCHANGED <<traceSlot, lastTrace, arg, ret>>

Next ==
    \/ ResolveHandlerOk
    \/ ResolveHandlerFails
    \/ LoadRejects
    \/ GetNextInvocationOk
    \/ GetNextInvocationThrows
    \/ HandlerReturns
    \/ HandlerThrows
    \/ SendResponseResolves
    \/ SendResponseRejects
    \/ ErrorPostResolves
    \/ ErrorPostRejects

Spec == Init /\ [][Next]_vars

----------------------------------------------------------------------------
(* Vocabulary of the properties *)

Reports == {i \in 1..Len(calls) : calls[i].op \in {"response", "error"}}
Outstanding == {i \in 1..Len(calls) : calls[i].status = "started"}
NoneFailed == \A i \in 1..Len(calls) : calls[i].status # "failed"
ResolutionFailed == ~getLambdaHandler(handlerSpec).ok

\* the poll that the report at position i answers: the last poll before it
PollOf(i) == CHOOSE j \in Polls : j < i /\ \A k \in Polls : k < i => k <= j

\* the handler has just thrown / returned in this step
Threw == pc = "invoking" /\ invocations'[Len(invocations)].outcome = "threw"
Returned == pc = "invoking" /\ invocations'[Len(invocations)].outcome = "returned"

----------------------------------------------------------------------------
(* C1 *)

\* C1: while every control-plane request succeeds, the calls are made in the
\* order next, report_1, next, report_2, ..., report_k being a response post
\* if invocation k returned and an error post if it threw, and report_k has
\* finished when the next poll is made.
C1_OrderedAndFinished ==
    (~ResolutionFailed /\ NoneFailed) =>
        \A i \in 1..Len(calls) :
            /\ (i % 2 = 1) => calls[i].op = "next"
            /\ (i % 2 = 0) =>
                    calls[i].op = IF invocations[i \div 2].outcome = "returned"
                                  THEN "response" ELSE "error"
            /\ (i > 1 /\ calls[i].op = "next") => calls[i - 1].status = "completed"

----------------------------------------------------------------------------
(* C2 *)

\* C2: when the handler throws in the cycle of request id r, the runtime makes
\* one POST to /r/error with the JSON-encoded normalized error, no POST to
\* /r/response, then polls again, and the process does not exit.
C2_ThrowIsIsolated ==
    [][Threw =>
        /\ Len(calls') = Len(calls) + 2
        /\ SubSeq(calls', 1, Len(calls)) = calls
        /\ calls'[Len(calls) + 1].op = "error"
        /\ calls'[Len(calls) + 1].method = "POST"
        /\ calls'[Len(calls) + 1].rid = context.awsRequestId
        /\ calls'[Len(calls) + 1].body =
              JSONStringify(createError(invocations'[Len(invocations)].thrown))
        /\ calls'[Len(calls) + 2].op = "next"
        /\ pc' = "awaitNext"
        /\ exitStatus' = <<>>]_vars

----------------------------------------------------------------------------
(* C3 *)

\* C3: when the handler returns a value, whatever it is, the runtime makes
\* one POST to /{requestId}/response with that value as the body, calls no
\* error endpoint for that request id, and goes on (it does not exit).
C3_ResultIsPosted ==
    [][Returned =>
        LET result == invocations'[Len(invocations)].result IN
        /\ Len(calls') = Len(calls) + 1
        /\ SubSeq(calls', 1, Len(calls)) = calls
        /\ calls'[Len(calls')].op = "response"
        /\ calls'[Len(calls')].method = "POST"
        /\ calls'[Len(calls')].rid = context.awsRequestId
        /\ (result.type = "string" => calls'[Len(calls')].body = result.scalar)
        /\ (result.type = "undefined" => calls'[Len(calls')].body = "")
        /\ pc' = "awaitResponse"
        /\ exitStatus' = <<>>]_vars

----------------------------------------------------------------------------
(* C4 *)

\* C4: when handler resolution fails, one POST to /init/error is made and
\* completed, and the process then terminates with a non-zero status.
C4_InitErrorDelivered ==
    (ResolutionFailed /\ pc = "exited") =>
        /\ Len(calls) = 1
        /\ calls[1].op = "initError"
        /\ calls[1].status = "completed"
        /\ exitStatus = <<1>>

----------------------------------------------------------------------------
(* C5 *)

\* C5: if handler resolution fails the runtime never polls, never invokes a
\* handler, posts no response and no invocation error, and exits with status
\* 1; and once the loop has started the init-error endpoint is never called.
C5_InitFailureNeverLoops ==
    /\ ResolutionFailed =>
         /\ Polls = {} /\ Reports = {} /\ invocations = <<>>
         /\ pc \in {"init", "exited"}
         /\ (pc = "exited" => exitStatus = <<1>>)
    /\ Polls # {} => \A i \in 1..Len(calls) : calls[i].op # "initError"

\* handler resolution has failed and the process has exited after starting
\* the init-error post
C5_Witness ==
    /\ ResolutionFailed /\ pc = "exited" /\ exitStatus = <<1>>
    /\ Len(calls) = 1 /\ calls[1].op = "initError"

----------------------------------------------------------------------------
(* C6 *)

\* C6: a transport failure of an error post reaches the catch of
\* startRuntime: the runtime logs it and the process exits with status 1.
C6_ErrorPostFailureIsFatal ==
    \A i \in 1..Len(calls) :
        (calls[i].op = "error" /\ calls[i].status = "failed") =>
            pc = "exited" /\ exitStatus = <<1>> /\ logged # <<>>

----------------------------------------------------------------------------
(* C7 *)

\* C7: the running runtime has at most one control-plane request outstanding
\* (so no poll is issued while a report is still in flight).
C7_OneOutstanding == pc # "exited" => Cardinality(Outstanding) <= 1

----------------------------------------------------------------------------
(* C8 *)

\* fetch-next failed for the poll at position i: the request failed, or it is
\* the last answered poll and its response does not decode
PollFailed(i) ==
    \/ calls[i].status = "failed"
    \/ /\ calls[i].status = "completed"
       /\ \A k \in Polls : k > i => calls[k].status = "started"
       /\ ~getNextInvocation(data).ok

\* C8: if fetch-next fails the handler is not invoked for that cycle, nothing
\* is posted for it, no further poll is made, the failure is logged and the
\* process exits with status 1.
C8_PollFailureIsFatal ==
    \A i \in Polls :
        PollFailed(i) =>
            /\ i = Len(calls)
            /\ Len(invocations) = Cardinality(Polls) - 1
            /\ \A k \in 1..Len(invocations) : invocations[k].outcome # "running"
            /\ pc = "exited" /\ exitStatus = <<1>> /\ Len(logged) = 1

\* a poll of a later cycle was answered with a response that does not decode
C8_Witness ==
    /\ Len(invocations) >= 1 /\ calls # <<>>
    /\ calls[Len(calls)].op = "next" /\ calls[Len(calls)].status = "completed"
    /\ ~getNextInvocation(data).ok
    /\ pc = "exited"

----------------------------------------------------------------------------
(* C9 *)

\* C9: if the response post fails, no further poll and no error post for
\* that invocation is made, the failure is logged and the process exits
\* with status 1.
C9_ResponseFailureIsFatal ==
    \A i \in 1..Len(calls) :
        (calls[i].op = "response" /\ calls[i].status = "failed") =>
            /\ i = Len(calls)
            /\ \A k \in 1..Len(calls) :
                   calls[k].op = "error" => calls[k].rid # calls[i].rid
            /\ pc = "exited" /\ exitStatus = <<1>> /\ Len(logged) = 1

\* the response post of the second cycle has failed
C9_Witness ==
    /\ Len(invocations) = 2 /\ calls # <<>>
    /\ calls[Len(calls)].op = "response" /\ calls[Len(calls)].status = "failed"

----------------------------------------------------------------------------
(* C10 *)

\* C10: every response or error post follows a completed poll and carries in
\* its path the request id that poll was answered with, and no poll gets
\* more than one report.
C10_ReportEchoesRequestId ==
    \A i \in Reports :
        /\ \E j \in Polls : j < i
        /\ calls[PollOf(i)].status = "completed"
        /\ calls[i].rid = calls[PollOf(i)].rid
        /\ calls[i].method = "POST"
        /\ calls[i].url = IF calls[i].op = "response"
                          THEN getInvocationResponseUrl(calls[PollOf(i)].rid)
                          ELSE getInvocationErrorUrl(calls[PollOf(i)].rid)
        /\ \A k \in Reports : PollOf(k) = PollOf(i) => k = i

\* three polls were answered, the first and third reported by a response
\* post and the second by an error post
C10_Witness ==
    /\ Len(calls) >= 6
    /\ calls[2].op = "response" /\ calls[4].op = "error" /\ calls[6].op = "response"
    /\ calls[6].rid = IdPool[3]

----------------------------------------------------------------------------
(* C11 *)

\* the trace id the control plane sent with the last answered poll
TraceSent == HeaderValue(data.headers, "lambda-runtime-trace-id")

\* C11: when the poll response carries a trace-id header, the trace slot
\* holds that header's value while the handler of that cycle runs.
C11_TraceIdPropagated ==
    (pc = "invoking" /\ TraceSent # Undefined) => traceSlot = TraceSent

----------------------------------------------------------------------------
(* C18 *)

\* C18: every successful poll assigns the trace slot, so while a handler runs
\* the slot holds no trace id other than the one of its own poll response;
\* in particular none when that response carried no trace id.
C18_NoLeftoverTrace ==
    pc = "invoking" =>
        /\ traceSlot # Undefined
        /\ \A k \in 1..Len(TracePool) :
               traceSlot = <<TracePool[k]>> => TraceSent = <<TracePool[k]>>

\* a handler runs on a poll response without a trace id, after an earlier
\* response had carried one
C18_Witness ==
    /\ pc = "invoking" /\ issued >= 2
    /\ lastTrace # <<>> /\ TraceSent = Undefined
    /\ traceSlot = <<"undefined">>

----------------------------------------------------------------------------
(* C12 *)

\* handler resolution on its own, for every handler specifier of at most
\* MaxSpecLen characters
InitResolve ==
    /\ pc = "init"
    /\ handlerSpec \in TextsUpTo({"i", "h", "x", "."}, MaxSpecLen)
    /\ rejectionMode = "unobserved"
    /\ calls = <<>>
    /\ data = NoResponse
    /\ invocations = <<>>
    /\ context = NoContext
    /\ event = UndefinedVal
    /\ logged = <<>>
    /\ exitStatus = <<>>
    /\ issued = 0
    /\ traceSlot = Undefined
    /\ lastTrace = <<>>
    /\ reply = <<>>
    /\ arg = <<>>
    /\ ret = <<>>

NextResolve == ResolveHandlerOk \/ ResolveHandlerFails

SpecResolve == InitResolve /\ [][NextResolve]_vars

\* a specifier of exactly one non-empty module path and one non-empty
\* exported name, with one separator between them
WellFormed(spec) ==
    /\ Cardinality({i \in 1..Len(spec) : spec[i] = "."}) = 1
    /\ spec[1] # "." /\ spec[Len(spec)] # "."

\* C12: a specifier that is not one non-empty path, one separator and one
\* non-empty name is rejected before any module is loaded and before any
\* network call: the handler is never resolved from it.
C12_RejectsMalformed ==
    (~WellFormed(handlerSpec) /\ pc # "init") =>
        /\ ~getLambdaHandler(handlerSpec).ok
        /\ ~getLambdaHandler(handlerSpec).imported
        /\ pc = "exited"
        /\ Polls = {}

----------------------------------------------------------------------------
(* C13 *)

\* the path every endpoint lies under, as the protocol gives it
InvocationPath == "/2018-06-01/runtime/invocation"

\* C13: the poll is a GET without a body to base/2018-06-01/runtime/
\* invocation/next; the response, error and init-error posts are POSTs to
\* .../{requestId}/response, .../{requestId}/error and .../init/error.
C13_EndpointUrls ==
    \A i \in 1..Len(calls) :
        LET c == calls[i] IN
        /\ c.op = "next" =>
              /\ c.url = AWS_LAMBDA_RUNTIME_API \o InvocationPath \o "/next"
              /\ c.method = "GET" /\ c.body = ""
        /\ c.op = "response" =>
              /\ c.url = AWS_LAMBDA_RUNTIME_API \o InvocationPath \o "/" \o c.rid
                            \o "/response"
              /\ c.method = "POST"
        /\ c.op = "error" =>
              /\ c.url = AWS_LAMBDA_RUNTIME_API \o InvocationPath \o "/" \o c.rid
                            \o "/error"
              /\ c.method = "POST"
        /\ c.op = "initError" =>
              /\ c.url = AWS_LAMBDA_RUNTIME_API \o InvocationPath \o "/init/error"
              /\ c.method = "POST"

----------------------------------------------------------------------------
(* Functions examined on their own *)

\* the variables of the runtime, which stay as they are at the start while a
\* function is examined on its own
runtimeVars ==
    <<pc, handlerSpec, rejectionMode, calls, data, invocations, context, event,
      logged, exitStatus, issued, traceSlot, lastTrace, reply>>

RuntimeAtStart ==
    /\ pc = "init"
    /\ handlerSpec = <<"i", ".", "h">>
    /\ rejectionMode = "unobserved"
    /\ calls = <<>>
    /\ data = NoResponse
    /\ invocations = <<>>
    /\ context = NoContext
    /\ event = UndefinedVal
    /\ logged = <<>>
    /\ exitStatus = <<>>
    /\ issued = 0
    /\ traceSlot = Undefined
    /\ lastTrace = <<>>
    /\ reply = <<>>

----------------------------------------------------------------------------
(* C14 *)

\* the thrown values examined: Errors of two names and two messages with
\* every stack text of at most MaxStackLen characters, a value that is not
\* an Error, and null
ThrownValues ==
    {ErrorObject(n, m, st) :
        n \in {"Error", "TypeError"}, m \in {"bad", "boom"},
        st \in TextsUpTo({"a", "b", "\n"}, MaxStackLen)}
    \cup {NonError, NullValue}

InitNormalize == RuntimeAtStart /\ arg \in ThrownValues /\ ret = <<>>

\* createError(arg), and the bodies handleInitError and handleInvocationError
\* post for arg
Normalize ==
    /\ ret = <<>>
    /\ ret' = <<[threw |-> ~createError(arg).ok,
                 value |-> createError(arg),
                 initBody |-> IF createError(arg).ok
                              THEN handleInitError(arg).body ELSE "",
                 errorBody |-> IF createError(arg).ok
                               THEN handleInvocationError(arg, NoContext).body
                               ELSE ""]>>
    /\ UNCHANGED <<runtimeVars, arg>>

SpecNormalize == InitNormalize /\ [][Normalize]_vars

\* C14: normalization maps any thrown failure to its name, its message and
\* the lines of its stack text, one element per line in order, and the
\* init-error and invocation-error reports carry the same normalization.
C14_Normalization ==
    ret # <<>> =>
        LET n == ret[1] IN
        /\ ~n.threw
        /\ n.value.errorType = ErrName(arg)
        /\ n.value.errorMessage = ErrMessage(arg)
        /\ Len(n.value.stackTrace) =
              Cardinality({i \in 1..Len(ErrStack(arg)) : ErrStack(arg)[i] = "\n"}) + 1
        /\ JoinStr(n.value.stackTrace, "\n") = Str(ErrStack(arg))
        /\ n.initBody = JSONStringify(n.value)
        /\ n.errorBody = n.initBody

----------------------------------------------------------------------------
(* C15 *)

\* the remaining-time accessor on its own: arg is Date.now(); ret holds the
\* contexts built so far, the deadline the control plane sent for each, and
\* the readings taken
InitClock ==
    /\ RuntimeAtStart
    /\ arg = 0
    /\ ret = [contexts |-> <<>>, deadlines |-> <<>>, reads |-> <<>>]

\* time passes
Tick ==
    /\ arg < TickMs * MaxTicks
    /\ arg' = arg + TickMs
    /\ UNCHANGED <<runtimeVars, ret>>

\* a poll is answered with a deadline and getNextInvocation builds a context
BuildContext ==
    \E k \in 0..(MaxTicks - 1) :
        LET deadline == k * TickMs + 2
            d == [statusCode |-> 200, body |-> Doc,
                  headers |-> PollHeaders(IdPool[Len(ret.contexts) + 1], <<>>, <<>>,
                                          <<>>, ToDigits(deadline))]
        IN  /\ Len(ret.contexts) < 2
            /\ ret' = [ret EXCEPT
                          !.contexts = Append(@, getNextInvocation(d).context),
                          !.deadlines = Append(@, deadline)]
            /\ UNCHANGED <<runtimeVars, arg>>

\* a handler calls the accessor of one of the contexts
ReadRemainingTime ==
    \E i \in 1..Len(ret.contexts) :
        /\ Len(ret.reads) < MaxReads
        /\ ret' = [ret EXCEPT !.reads = Append(@,
                      [ctx |-> i, now |-> arg, built |-> Len(ret.contexts),
                       value |-> getRemainingTimeInMillis(ret.contexts[i], arg)])]
        /\ UNCHANGED <<runtimeVars, arg>>

NextClock == Tick \/ BuildContext \/ ReadRemainingTime

SpecClock == InitClock /\ [][NextClock]_vars

\* C15: every reading of a context's accessor is the deadline of that
\* context's own poll response minus the time of the reading: negative past
\* the deadline, non-increasing over successive readings, and untouched by
\* the deadline of a later poll.
C15_RemainingTime ==
    \A j \in 1..Len(ret.reads) :
        LET r == ret.reads[j] IN
        /\ r.value = ret.deadlines[r.ctx] - r.now
        /\ r.now > ret.deadlines[r.ctx] => r.value < 0
        /\ \A k \in 1..(j - 1) :
               ret.reads[k].ctx = r.ctx => ret.reads[k].value >= r.value

\* the first context is read before and after its deadline, the second time
\* after a later poll has brought a different deadline
C15_Witness ==
    /\ Len(ret.reads) >= 2 /\ Len(ret.deadlines) = 2
    /\ ret.deadlines[1] # ret.deadlines[2]
    /\ ret.reads[1].ctx = 1 /\ ret.reads[1].value > 0
    /\ ret.reads[2].ctx = 1 /\ ret.reads[2].value < 0 /\ ret.reads[2].built = 2

----------------------------------------------------------------------------
(* C16 *)

\* every handler invocation that returned, returned a text
TextOrThrow ==
    \A k \in 1..Len(invocations) :
        invocations[k].outcome = "returned" => invocations[k].result.type = "string"

\* C16: if handler resolution succeeds, every control-plane request succeeds
\* and every handler invocation returns a text or throws, the runtime never
\* terminates.
C16_NeverTerminates ==
    ( /\ ~ResolutionFailed
      /\ NoneFailed
      /\ \A i \in Polls : ~PollFailed(i)
      /\ TextOrThrow )
    => pc # "exited"

----------------------------------------------------------------------------
(* C17 *)

\* the poll of cycle k
NthPoll(k) == CHOOSE i \in Polls : Cardinality({j \in Polls : j < i}) = k - 1

\* the polls that gave an invocation
Decoded == {i \in Polls : calls[i].status = "completed" /\ ~PollFailed(i)}

OncePerPoll ==
    /\ Len(invocations) = Cardinality(Decoded)
    /\ \A k \in 1..Len(invocations) :
           /\ NthPoll(k) \in Decoded
           /\ invocations[k].rid = calls[NthPoll(k)].rid
           /\ invocations[k].outcome = "running" =>
                  k = Len(invocations) /\ pc \in {"invoking", "exited"}
    /\ invocations # <<>> => getLambdaHandler(handlerSpec).ok /\ pc # "init"
    /\ pc = "invoking" =>
           /\ invocations # <<>>
           /\ invocations[Len(invocations)].outcome = "running"
           /\ getNextInvocation(data).ok
           /\ event = getNextInvocation(data).event
           /\ context = getNextInvocation(data).context
           /\ context.awsRequestId = data.headers["lambda-runtime-aws-request-id"]
           /\ calls[NthPoll(Len(invocations))].rid = context.awsRequestId

NothingElseMeanwhile ==
    /\ (pc = "invoking" /\ pc' = "invoking") =>
           /\ invocations' = invocations
           /\ Len(calls') = Len(calls)
           /\ event' = event /\ context' = context
    /\ Len(invocations') > Len(invocations) =>
           /\ pc = "awaitNext" /\ pc' = "invoking"
           /\ Len(invocations') = Len(invocations) + 1
           /\ Len(calls') = Len(calls)

\* C17: the handler is invoked exactly once per successful poll, with the
\* event and context of that poll and never before handler resolution has
\* succeeded; while an invocation runs the runtime starts no other invocation
\* and sends no request.
C17_OneInvocationPerPoll == []OncePerPoll /\ [][NothingElseMeanwhile]_vars

\* the handler runs for the second poll, on an event and a request id other
\* than the first one's, while the error post of the first is not yet answered
C17_Witness ==
    /\ pc = "invoking" /\ Len(invocations) = 2
    /\ invocations[1].outcome = "threw"
    /\ invocations[1].rid # invocations[2].rid
    /\ event # JSONParse(Doc).value
    /\ \E i \in Outstanding : calls[i].op = "error"

----------------------------------------------------------------------------
(* C19 *)

Success(code) == code >= 200 /\ code < 300

\* a poll answered with a status that is not a success and a body that decodes
\* starts the handler on the decoded event and context
PollStatusIgnored ==
    (pc = "awaitNext" /\ issued' = issued + 1
        /\ ~Success(data'.statusCode) /\ getNextInvocation(data').ok)
    => /\ pc' = "invoking"
       /\ Len(invocations') = Len(invocations) + 1
       /\ event' = getNextInvocation(data').event
       /\ context' = getNextInvocation(data').context
       /\ exitStatus' = <<>>

\* the outcome of an invocation polled with such a status is reported as any
\* other: the result to the response URL, the failure to the error URL
ReportStatusIgnored ==
    (pc = "invoking" /\ ~Success(data.statusCode) /\ pc' # "exited" /\ pc' # "invoking")
    => LET inv == invocations'[Len(invocations')] IN
       /\ Returned =>
              /\ pc' = "awaitResponse"
              /\ calls' = Append(calls, Call("response", context.awsRequestId,
                     send(getInvocationResponseUrl(context.awsRequestId), inv.result)))
       /\ Threw =>
              /\ pc' = "awaitNext"
              /\ calls' = IssuePoll(Append(calls,
                     handleInvocationError(inv.thrown, context)))

\* a reply to a post with a status that is not a success: after a response
\* post the next poll is sent, after an error post nothing changes
ReplyStatusIgnored ==
    (reply' # <<>> /\ ~Success(reply'[1]))
    => /\ exitStatus' = <<>> /\ logged' = logged
       /\ IF pc = "awaitResponse" /\ calls[Len(calls)].status = "started"
             /\ calls'[Len(calls)].status = "completed"
          THEN pc' = "awaitNext" /\ calls' = IssuePoll(Settle(calls, "completed"))
          ELSE pc' = pc /\ Len(calls') = Len(calls)

\* C19: the status code of a control-plane response is never inspected: a
\* poll response with a non-2xx status and a valid body is dispatched and
\* reported like any other, and a non-2xx reply to a post neither ends the
\* loop nor changes its next step.
C19_StatusNeverInspected ==
    [][PollStatusIgnored /\ ReportStatusIgnored /\ ReplyStatusIgnored]_vars

\* an invocation polled with status 500 has returned, its response post was
\* answered with status 500, and the next poll is out
C19_Witness ==
    /\ reply = <<500>> /\ data.statusCode = 500
    /\ pc = "awaitNext"
    /\ invocations[Len(invocations)].outcome = "returned"
    /\ calls[Len(calls)].op = "next" /\ calls[Len(calls)].status = "started"
    /\ calls[Len(calls) - 1].op = "response"
    /\ calls[Len(calls) - 1].status = "completed"

----------------------------------------------------------------------------
(* C20 *)

\* isResponseOk on its own: arg is a response, ret the answer
InitStatus ==
    /\ RuntimeAtStart
    /\ arg \in {[statusCode |-> code, body |-> <<>>, headers |-> NoHeaders] :
                   code \in FirstStatus..LastStatus}
    /\ ret = <<>>

CheckStatus ==
    /\ ret = <<>>
    /\ ret' = <<isResponseOk(arg)>>
    /\ UNCHANGED <<runtimeVars, arg>>

SpecStatus == InitStatus /\ [][CheckStatus]_vars

\* C20: isResponseOk is true exactly for the status codes 200..300, false
\* for every status code below 200 or above 300.
C20_OkOnlyIn200To300 ==
    ret # <<>> => (ret[1] <=> arg.statusCode \in 200..300)

====
